---- MODULE Spec2Model ----
(***************************************************************************)
(* LearnOps: the JSON-document store behind /api (server.js, the second    *)
(* half of src/App.tsx), the client API layer (src/services/storage.ts)    *)
(* and the learner progression logic of CourseRoom                         *)
(* (src/pages/learner/LearnerDashboard.tsx).                               *)
(*                                                                         *)
(* JSON objects are functions from field names to values; a field a JSON   *)
(* object does not carry is outside its DOMAIN.  The store is one object   *)
(* with three arrays.  server.js hands out the store either as a fresh     *)
(* parse of database.json (a private object) or as MEMORY_DB itself (a     *)
(* shared object), so objects live in a heap and are named by pointers.    *)
(***************************************************************************)
EXTENDS Integers, Sequences, FiniteSets, TLC

VARIABLES
  disk,             \* content of database.json (a DB value)
  heap,             \* ObjIds -> DB value: the JS objects holding a store
  MEMORY_DB,        \* pointer to the object the global MEMORY_DB names
  USING_MEMORY_DB,  \* the global flag
  inflight,         \* slot -> request waiting for its body (readBody pending)
  lastOp,           \* the request last answered or accepted, with its response
  acked,            \* history: the entities whose creation was answered 201
  deleted,          \* history: course ids deleted and not posted/put since
  track,            \* the history variables kept in this specification
  raced,            \* history: two register calls for one email overlapped
  localStorage,     \* client -> the user stored under lms_current_user
  rooms,            \* client -> the state of its CourseRoom component
  pages,            \* client -> AuthContext, location and LoginPage state
  calls             \* client -> the api call that client is running

vars == <<disk, heap, MEMORY_DB, USING_MEMORY_DB, inflight, lastOp, acked, deleted,
          track, raced, localStorage, rooms, pages, calls>>

----------------------------------------------------------------------------
(* Bounds *)

MaxInFlight == 2      \* requests that may wait for their body at once
MaxLen == 3           \* room: entities in the store plus requests waiting
MaxWaitingCourses == 1  \* requests waiting for their body in SpecCourses, SpecSurface
NumClients == 2       \* browser sessions running the client API
MaxCalls == 4         \* api calls the sessions make together

Slots == 1..MaxInFlight

----------------------------------------------------------------------------
(* JSON values *)

Undefined == "undefined"

EmptyObj == [k \in {} |-> Undefined]

\* the JSON value null: reading a property of it throws a TypeError, and
\* spreading it adds nothing
Null == [null |-> "null"]

\* o.k in JavaScript: undefined when o has no own property k
Get(o, k) == IF k \in DOMAIN o THEN o[k] ELSE Undefined

\* { ...a, ...b }
Spread(a, b) ==
  IF b = Null THEN a
  ELSE [k \in (DOMAIN a) \cup (DOMAIN b) |-> IF k \in DOMAIN b THEN b[k] ELSE a[k]]

Range(s) == {s[i] : i \in DOMAIN s}

\* arr.filter(pred) for pred given as the set of kept values
RECURSIVE Filter(_, _)
Filter(s, keep) ==
  IF s = <<>> THEN <<>>
  ELSE IF Head(s) \in keep THEN <<Head(s)>> \o Filter(Tail(s), keep)
       ELSE Filter(Tail(s), keep)

\* arr.findIndex(x => x \in hits): 0 stands for -1
FindIndex(s, hits) ==
  IF \E i \in DOMAIN s : s[i] \in hits
  THEN CHOOSE i \in DOMAIN s : s[i] \in hits /\ \A j \in 1..(i - 1) : s[j] \notin hits
  ELSE 0

EmptyDB == [users |-> <<>>, courses |-> <<>>, enrollments |-> <<>>]

NoId == ""
NoBody == [kind |-> "empty"]
Json(o) == [kind |-> "json", val |-> o]

----------------------------------------------------------------------------
(* server.js: persistence helpers *)

Idle == [busy |-> FALSE]

Busy == {s \in Slots : inflight[s].busy}

\* Object names.  What a name is does not matter, only which references name
\* the same object, so after every step the objects are renamed: MEMORY_DB is
\* object 0 and any other object is named after the lowest slot referring to
\* it.  Fresh is the name of an object made during a step (a fresh JSON.parse).
Fresh == MaxInFlight + 1
ObjIds == 0..Fresh

NameOf(p, mem, infl) ==
  IF p = mem THEN 0
  ELSE CHOOSE s \in Slots :
         /\ infl[s].busy /\ infl[s].ptr = p
         /\ \A t \in Slots : (infl[t].busy /\ infl[t].ptr = p) => s <= t

Referenced(mem, infl) == {mem} \cup {infl[s].ptr : s \in {t \in Slots : infl[t].busy}}

\* the heap after a step, garbage dropped and objects renamed
Renamed(h, mem, infl) ==
  [n \in ObjIds |->
     IF \E p \in Referenced(mem, infl) : NameOf(p, mem, infl) = n
     THEN h[CHOOSE p \in Referenced(mem, infl) : NameOf(p, mem, infl) = n]
     ELSE EmptyDB]

RenamedRefs(mem, infl) ==
  [s \in Slots |->
     IF infl[s].busy THEN [infl[s] EXCEPT !.ptr = NameOf(@, mem, infl)] ELSE Idle]

\* the state of the server once a handler has run: h, mem, infl are the heap,
\* MEMORY_DB and the waiting requests it leaves
Leave(h, mem, infl) ==
  /\ heap' = Renamed(h, mem, infl)
  /\ MEMORY_DB' = 0
  /\ inflight' = RenamedRefs(mem, infl)

\* readDB: MEMORY_DB itself in memory mode, else a fresh parse of the file
readDBPtr == IF USING_MEMORY_DB THEN MEMORY_DB ELSE Fresh
readDB == IF USING_MEMORY_DB THEN heap[MEMORY_DB] ELSE disk

\* What a request arriving now would read
Store == readDB

\* a writeDB that tries the file on every call and goes back to disk mode
\* when the write succeeds
writeDBRetry(ptr, db, diskOk, infl) ==
  /\ Leave([heap EXCEPT ![ptr] = db], ptr, infl)
  /\ IF diskOk
     THEN disk' = db /\ USING_MEMORY_DB' = FALSE
     ELSE USING_MEMORY_DB' = TRUE /\ UNCHANGED disk

\* writeDB(data), data being the object at ptr, now holding db; diskOk says
\* whether fs.writeFileSync succeeds
writeDB(ptr, db, diskOk, infl) ==
  /\ Leave([heap EXCEPT ![ptr] = db], ptr, infl)
  /\ IF USING_MEMORY_DB
     THEN UNCHANGED <<disk, USING_MEMORY_DB>>
     ELSE IF diskOk
          THEN disk' = db /\ UNCHANGED USING_MEMORY_DB
          ELSE USING_MEMORY_DB' = TRUE /\ UNCHANGED disk

\* a handler that ends without writeDB
noWrite(infl) ==
  /\ Leave(heap, MEMORY_DB, infl)
  /\ UNCHANGED <<disk, USING_MEMORY_DB>>

----------------------------------------------------------------------------
(* server.js: routing *)

\* JSON.parse with every failure turned into null
parseOrNull(body) ==
  IF body.kind = "json" THEN body.val
  ELSE IF body.kind = "text" THEN Null ELSE EmptyObj

\* readBody: the parsed body, {} for an empty or malformed one
readBody(body) == IF body.kind = "json" THEN body.val ELSE EmptyObj

\* the routes that answer only once the body has been read
IsAsync(req) ==
  \/ req.coll = "users" /\ req.id = NoId /\ req.method = "POST"
  \/ req.coll = "users" /\ req.id # NoId /\ req.method = "PATCH"
  \/ req.coll = "courses" /\ req.id = NoId /\ req.method = "POST"
  \/ req.coll = "courses" /\ req.id # NoId /\ req.method = "PUT"
  \/ req.coll = "enrollments" /\ req.id = NoId /\ req.method = "POST"
  \/ req.coll = "enrollments" /\ req.id # NoId /\ req.method = "PUT"

Reply(db, write, status, body) ==
  [db |-> db, write |-> write, status |-> status, body |-> body]

\* db.courses.filter(c => c.id !== id)
onlyId(courses, id) ==
  Filter(courses, {c \in Range(courses) : Get(c, "id") = id})
withoutId(courses, id) ==
  Filter(courses, {c \in Range(courses) : Get(c, "id") # id})

\* the catch of the routing code: sendJSON({ error: 'Internal Server Error' }, 500)
InternalServerError(db) == Reply(db, FALSE, 500, [error |-> "Internal Server Error"])

\* a route that answers every request
RouteOk(db) == Reply(db, FALSE, 200, EmptyObj)

\* no route matched: sendJSON({ error: 'Route not found' }, 404)
RouteNotFound(db) == Reply(db, FALSE, 404, [error |-> "Route not found"])

\* an exception thrown in the tick the request arrives, inside the try block:
\* the filter of DELETE reads c.id of every stored course
SyncThrows(req, db) ==
  /\ req.coll = "courses" /\ req.id # NoId /\ req.method = "DELETE"
  /\ Null \in Range(db.courses)

\* the routes answered in the tick the request arrives; an OPTIONS request is
\* answered 204 with no body before any routing
SyncRoute(req, db) ==
  IF req.method = "OPTIONS"
  THEN Reply(db, FALSE, 204, NoBody)
  ELSE IF SyncThrows(req, db)
  THEN InternalServerError(db)
  ELSE IF req.coll = "health" /\ req.id = NoId
  THEN Reply(db, FALSE, 200,
             [status |-> "ok", mode |-> IF USING_MEMORY_DB THEN "memory" ELSE "disk"])
  ELSE IF req.coll \in {"users", "courses", "enrollments"}
          /\ req.id = NoId /\ req.method = "GET"
  THEN Reply(db, FALSE, 200, db[req.coll])
  ELSE IF req.coll = "courses" /\ req.id # NoId /\ req.method = "DELETE"
  THEN Reply([db EXCEPT !.courses = withoutId(@, req.id)], TRUE, 200,
             [success |-> TRUE])
  ELSE RouteNotFound(db)

\* the snapshot a body callback works on: the db its request read on arrival
SnapshotFresh(slot) == Store
Snapshot(slot) == heap[inflight[slot].ptr]

\* arr.push(x)
pushFront(arr, x) == <<x>> \o arr
push(arr, x) == Append(arr, x)

\* e.userId === enrollment.userId && e.courseId === enrollment.courseId
sameId(e, b) == Get(e, "id") = Get(b, "id")
samePair(e, b) ==
  Get(e, "userId") = Get(b, "userId") /\ Get(e, "courseId") = Get(b, "courseId")

\* find / findIndex throws: its callback reaches an element of bad before any
\* element of hits
ThrowsBefore(arr, bad, hits) ==
  \E i \in DOMAIN arr :
    /\ arr[i] \in bad
    /\ \A j \in 1..(i - 1) : arr[j] \notin hits \cup bad

\* an exception thrown in a callback passed to readBody().then: u.id, c.id,
\* e.userId or e.id of a stored null, enrollment.userId or updates.userId of a
\* null body
BodyThrows(req, db, b) ==
  IF req.coll = "users" /\ req.method = "PATCH"
  THEN ThrowsBefore(db.users, {Null},
                    {u \in Range(db.users) \ {Null} : Get(u, "id") = req.id})
  ELSE IF req.coll = "courses" /\ req.method = "PUT"
  THEN ThrowsBefore(db.courses, {Null},
                    {c \in Range(db.courses) \ {Null} : Get(c, "id") = req.id})
  ELSE IF req.coll = "enrollments" /\ req.method = "POST"
  THEN IF b = Null
       THEN db.enrollments # <<>>
       ELSE ThrowsBefore(db.enrollments, {Null},
                         {e \in Range(db.enrollments) \ {Null} : samePair(e, b)})
  ELSE IF req.coll = "enrollments" /\ req.method = "PUT"
  THEN LET stored == Range(db.enrollments) \ {Null}
           byId == {e \in stored : Get(e, "id") = req.id}
       IN IF b = Null
          THEN ThrowsBefore(db.enrollments, Range(db.enrollments) \ byId, byId)
          ELSE ThrowsBefore(db.enrollments, {Null},
                            byId \cup {e \in stored : samePair(e, b)})
  ELSE FALSE

\* the callback threw: nothing catches it, no response is written (the
\* rejection is unhandled, which may also end the process)
NoResponse == 0

\* the callbacks passed to readBody().then
BodyRoute(req, db, b) ==
  IF BodyThrows(req, db, b)
  THEN Reply(db, FALSE, NoResponse, EmptyObj)
  ELSE IF req.coll = "users" /\ req.method = "POST"
  THEN Reply([db EXCEPT !.users = push(@, b)], TRUE, 201, b)
  ELSE IF req.coll = "users"
  THEN LET idx == FindIndex(db.users, {u \in Range(db.users) : Get(u, "id") = req.id})
       IN IF idx # 0
          THEN Reply([db EXCEPT !.users[idx] = Spread(@, b)], TRUE, 200,
                     Spread(db.users[idx], b))
          ELSE Reply(db, FALSE, 404, [error |-> "User not found"])
  ELSE IF req.coll = "courses" /\ req.method = "POST"
  THEN Reply([db EXCEPT !.courses = push(@, b)], TRUE, 201, b)
  ELSE IF req.coll = "courses"
  THEN LET idx == FindIndex(db.courses, {c \in Range(db.courses) : Get(c, "id") = req.id})
       IN IF idx # 0
          THEN Reply([db EXCEPT !.courses[idx] = b], TRUE, 200, b)
          ELSE Reply([db EXCEPT !.courses = push(@, b)], TRUE, 200, b)
  ELSE IF req.coll = "enrollments" /\ req.method = "POST"
  THEN LET hits == {e \in Range(db.enrollments) : samePair(e, b)}
           idx == FindIndex(db.enrollments, hits)
       IN IF idx # 0
          THEN Reply(db, FALSE, 200, db.enrollments[idx])
          ELSE Reply([db EXCEPT !.enrollments = push(@, b)], TRUE, 201, b)
  ELSE LET hits == {e \in Range(db.enrollments) :
                      Get(e, "id") = req.id \/ samePair(e, b)}
           idx == FindIndex(db.enrollments, hits)
       IN IF idx # 0
          THEN Reply([db EXCEPT !.enrollments[idx] = Spread(@, b)], TRUE, 200,
                     Spread(db.enrollments[idx], b))
          ELSE Reply(db, FALSE, 404, [error |-> "Enrollment not found"])

----------------------------------------------------------------------------
(* server.js: the request handler *)

NoOwner == 0

Req(m, c, i, b) == [method |-> m, coll |-> c, id |-> i, body |-> b]

\* what lastOp records: status 0 while the body is awaited
Op(req, status, body) == [req |-> req, status |-> status, body |-> body]

NoOp == Op(Req("NONE", "none", NoId, NoBody), 0, EmptyObj)

IsCoursePut(req) ==
  req.coll = "courses" /\ req.method \in {"POST", "PUT"} /\ IsAsync(req)

\* http.createServer callback for a request under /api: db = readDB() is taken
\* here; GET, DELETE and unknown routes are answered at once, the others
\* register a body callback and return
Arrive(req, owner, diskOk) ==
  IF IsAsync(req)
  THEN \E s \in Slots :
         /\ ~inflight[s].busy
         /\ \A t \in Slots : t < s => inflight[t].busy
         /\ Leave([heap EXCEPT ![readDBPtr] = readDB], MEMORY_DB,
                  [inflight EXCEPT ![s] =
                     [busy |-> TRUE, req |-> req, ptr |-> readDBPtr, owner |-> owner]])
         /\ lastOp' = Op(req, 0, EmptyObj)
         /\ UNCHANGED <<disk, USING_MEMORY_DB, acked, deleted, track>>
  ELSE LET r == SyncRoute(req, readDB)
       IN /\ IF r.write
             THEN writeDB(readDBPtr, r.db, diskOk, inflight)
             ELSE noWrite(inflight)
          /\ lastOp' = Op(req, r.status, r.body)
          /\ deleted' = IF r.write /\ "deleted" \in track
                        THEN {d \in deleted : d.id # req.id}
                               \cup {[id |-> req.id, quiet |-> Busy = {}]}
                        ELSE deleted
          /\ UNCHANGED <<acked, track>>

\* the body callback of the request in slot s runs (readBody resolved)
Process(s, diskOk) ==
  /\ inflight[s].busy
  /\ LET q == inflight[s]
         b == readBody(q.req.body)
         r == BodyRoute(q.req, Snapshot(s), b)
         infl == [inflight EXCEPT ![s] = Idle]
     IN /\ IF r.write THEN writeDB(q.ptr, r.db, diskOk, infl) ELSE noWrite(infl)
        /\ lastOp' = Op(q.req, r.status, r.body)
        /\ acked' = IF r.status = 201 /\ "acked" \in track
                    THEN acked \cup {[coll |-> q.req.coll, val |-> b]}
                    ELSE acked
        /\ deleted' = IF IsCoursePut(q.req) /\ r.write
                      THEN {d \in deleted : d.id # Get(b, "id")}
                      ELSE deleted
        /\ UNCHANGED track

\* the store has room for the entity a request may append and for the
\* requests already waiting (bounds the model)
Room(req, db) ==
  (IsAsync(req) /\ req.method \in {"POST", "PUT"})
    => Len(db.users) + Len(db.courses) + Len(db.enrollments) + Cardinality(Busy)
         < MaxLen

ServerInit ==
  /\ disk = EmptyDB
  /\ heap = [o \in ObjIds |-> EmptyDB]
  /\ MEMORY_DB = 0
  /\ USING_MEMORY_DB \in BOOLEAN
  /\ inflight = [s \in Slots |-> Idle]
  /\ lastOp = NoOp
  /\ acked = {}
  /\ deleted = {}

----------------------------------------------------------------------------
(* Requests sent straight to the HTTP surface *)

UserA == [id |-> "u1", email |-> "a@lms.com", password |-> "pw1", role |-> "learner"]
UserB == [id |-> "u2", email |-> "b@lms.com", password |-> "pw2", role |-> "learner",
          name |-> "B"]
CourseA == [id |-> "c1", status |-> "published", modules |-> <<"m1">>]
CourseA2 == [id |-> "c1", status |-> "draft", modules |-> <<>>, title |-> "A"]
CourseB == [id |-> "c2", status |-> "published", modules |-> <<"m1", "m2">>]
EnrA == [id |-> "e1", userId |-> "u1", courseId |-> "c1",
         completedModuleIds |-> <<>>, passed |-> FALSE]
EnrB == [id |-> "e2", userId |-> "u1", courseId |-> "c1",
         completedModuleIds |-> <<>>, passed |-> FALSE]

clientVars == <<raced, localStorage, rooms, pages, calls>>

\* a request from the set reqs arrives, at most waiting requests waiting for
\* their body at once; disks holds the outcomes a write of database.json may
\* have (TRUE: written, FALSE: fs.writeFileSync throws)
HttpRequest(reqs, disks, waiting) ==
  \E req \in reqs, diskOk \in disks :
    /\ Room(req, readDB)
    /\ IsAsync(req) => Cardinality(Busy) < waiting
    /\ Arrive(req, NoOwner, diskOk)
    /\ UNCHANGED clientVars

BodyRead(disks) ==
  \E s \in Slots, diskOk \in disks :
    /\ inflight[s].busy
    /\ inflight[s].owner = NoOwner
    /\ Process(s, diskOk)
    /\ UNCHANGED clientVars

InitServer(histories) ==
  /\ ServerInit
  /\ track = histories
  /\ raced = FALSE
  /\ localStorage = <<>>
  /\ rooms = <<>>
  /\ pages = <<>>
  /\ calls = <<>>

\* users: two clients post users and read the list
UserRequests ==
  {Req("GET", "users", NoId, NoBody)}
  \cup {Req("POST", "users", NoId, Json(u)) : u \in {UserA, UserB}}

UsersTraffic == HttpRequest(UserRequests, BOOLEAN, MaxInFlight)

UsersBodyRead == BodyRead(BOOLEAN)

NextUsers == UsersTraffic \/ UsersBodyRead

InitUsers == InitServer({"acked"})

SpecUsers == InitUsers /\ [][NextUsers]_vars

----------------------------------------------------------------------------
(* Claims checked under SpecUsers *)

\* the request in slot s holds an object no other reference names: a private
\* snapshot of the store, taken when it arrived
Private(s) ==
  /\ inflight[s].busy
  /\ inflight[s].ptr # MEMORY_DB
  /\ \A t \in Slots : (t # s /\ inflight[t].busy) => inflight[t].ptr # inflight[s].ptr

\* this step runs the body callback of the request in slot s
Processed(s) == inflight[s].busy /\ ~inflight'[s].busy

IsPost(req, coll) == req.method = "POST" /\ req.coll = coll /\ req.id = NoId

\* C1: a POST whose snapshot predates writes acknowledged since (a private
\* snapshot) is itself answered 201, and the store it leaves holds none of the
\* entities acknowledged with 201 that its snapshot lacked: those acknowledged
\* writes are lost.
C1_LostUpdate ==
  [][\A s \in Slots :
       (Processed(s) /\ Private(s) /\ IsPost(inflight[s].req, "users"))
         => /\ lastOp'.status = 201
            /\ \A a \in acked :
                 (/\ a.val \notin Range(heap[inflight[s].ptr][a.coll])
                  /\ a.val # readBody(inflight[s].req.body))
                   => a.val \notin Range(Store'[a.coll])]_vars

\* both users were answered 201 and the store holds only the second
C1_Witness ==
  /\ [coll |-> "users", val |-> UserA] \in acked
  /\ [coll |-> "users", val |-> UserB] \in acked
  /\ lastOp = Op(Req("POST", "users", NoId, Json(UserB)), 201, UserB)
  /\ Store.users = <<UserB>>

----------------------------------------------------------------------------
(* Courses: an admin posts, replaces and deletes course c1 while a user is
   being posted *)

CourseRequests ==
  {Req("GET", "courses", NoId, NoBody),
   Req("POST", "users", NoId, Json(UserA)),
   Req("POST", "enrollments", NoId, Json(EnrA)),
   Req("POST", "courses", NoId, Json(CourseA)),
   Req("POST", "courses", NoId, Json(CourseB)),
   Req("PUT", "courses", "c1", Json(CourseA2)),
   Req("DELETE", "courses", "c1", NoBody)}

CoursesTraffic == HttpRequest(CourseRequests, {TRUE}, MaxWaitingCourses)

CoursesBodyRead == BodyRead({TRUE})

NextCourses == CoursesTraffic \/ CoursesBodyRead

InitCourses == InitServer({"deleted"})

SpecCourses == InitCourses /\ [][NextCourses]_vars

\* the response a GET of collection coll would get from store value db
GetResponse(coll, db) == SyncRoute(Req("GET", coll, NoId, NoBody), db).body

\* C8: when the body of a POST /api/courses or POST /api/users is processed
\* with the store still as the request read it on arrival (no other request
\* came in between), the answer is 201 with the object sent, and a GET of
\* that collection then returns the previous list with exactly that object
\* appended; the other collections read as before.
C8_PostRoundTrip ==
  [][\A s \in Slots : \A coll \in {"users", "courses"} :
       (/\ Processed(s)
        /\ IsPost(inflight[s].req, coll)
        /\ inflight[s].req.body.kind = "json"
        /\ heap[inflight[s].ptr] = Store
        /\ Busy = {s})
         => /\ lastOp'.status = 201
            /\ lastOp'.body = inflight[s].req.body.val
            /\ GetResponse(coll, readDB') =
                 Append(GetResponse(coll, readDB), inflight[s].req.body.val)
            /\ \A other \in {"users", "courses", "enrollments"} \ {coll} :
                 GetResponse(other, readDB') = GetResponse(other, readDB)]_vars

\* a course was posted after a user, alone, and is the last of the list
C8_Witness ==
  /\ lastOp = Op(Req("POST", "courses", NoId, Json(CourseA)), 201, CourseA)
  /\ Busy = {}
  /\ GetResponse("courses", readDB) = <<CourseB, CourseA>>
  /\ GetResponse("users", readDB) = <<UserA>>

HasId(courses, id) == \E c \in Range(courses) : Get(c, "id") = id

\* C6 as stated: a course id deleted and not posted or put since is in no
\* GET /api/courses response, whatever was in flight at the DELETE.
C6_Original ==
  \A d \in deleted : ~HasId(GetResponse("courses", readDB), d.id)

\* C6 amended: once DELETE /api/courses/:id has been answered with no request
\* waiting for its body at that moment, no GET /api/courses response holds a
\* course with that id until a course with that id is posted or put again.
C6_DeletedStaysGone ==
  \A d \in deleted : d.quiet => ~HasId(GetResponse("courses", readDB), d.id)

\* c1 was deleted with nothing in flight, a user was posted since, and the
\* course list, still holding c2, does not show c1
C6_Witness ==
  /\ [id |-> "c1", quiet |-> TRUE] \in deleted
  /\ lastOp = Op(Req("POST", "users", NoId, Json(UserA)), 201, UserA)
  /\ GetResponse("courses", readDB) = <<CourseB>>

\* C7: a DELETE /api/courses/:id is answered 200 and leaves the users and the
\* enrollments as they were (the enrollments of the deleted course included),
\* and the courses with any other id, in their order.
C7_DeleteFrame ==
  [][(lastOp'.req.method = "DELETE" /\ lastOp'.req.coll = "courses")
       => /\ lastOp'.status = 200
          /\ readDB'.users = readDB.users
          /\ readDB'.enrollments = readDB.enrollments
          /\ readDB'.courses =
               SelectSeq(readDB.courses, LAMBDA c : Get(c, "id") # lastOp'.req.id)]_vars

\* c1 has just been deleted: its enrollment and the course c2 are still there
C7_Witness ==
  /\ lastOp.req = Req("DELETE", "courses", "c1", NoBody)
  /\ [id |-> "c1", quiet |-> TRUE] \in deleted
  /\ readDB.enrollments = <<EnrA>>
  /\ readDB.courses = <<CourseB>>

----------------------------------------------------------------------------
(* services/storage.ts: the client API.  Every call is a sequence of HTTP
   requests; between two of them other clients' requests may be served. *)

Clients == 1..NumClients

\* new Date().toISOString(): the clock is not modelled
Now == "2026-01-01T00:00:00.000Z"

\* Math.random().toString(36).substr(2, 9): a new id for each call of each
\* client (collisions of random ids are left out)
IdTable ==
  << <<"r11", "r12", "r13", "r14", "r15">>, <<"r21", "r22", "r23", "r24", "r25">>,
     <<"r31", "r32", "r33", "r34", "r35">> >>
RandomId(c, n) == IdTable[c][n]

\* properties that hold a string or undefined in some client object
StringKeys == {"id", "userId", "courseId", "email", "name", "role", "password",
               "joinedAt", "enrolledAt", "certifiedAt"}

\* the number NaN (0 / 0): every comparison with it is false
NaN == -2

\* null as the value of a numeric property
NullNumber == -3

\* a >= b on numbers
geq(a, b) == a # NaN /\ b # NaN /\ a >= b

\* properties that hold a number in some client object
NumberKeys == {"assessmentScore"}

\* JSON.parse(JSON.stringify(o)): properties whose value is undefined are
\* dropped, NaN is written as null
stringify(o) ==
  [k \in {j \in DOMAIN o : ~(j \in StringKeys /\ o[j] = Undefined)} |->
     IF k \in NumberKeys /\ o[k] = NaN THEN NullNumber ELSE o[k]]

CallIdle(n) ==
  [pc |-> "idle", op |-> "none", n |-> n, arg |-> EmptyObj, sent |-> EmptyObj,
   todo |-> <<>>, result |-> EmptyObj, status |-> 0, error |-> ""]

\* the api calls the sessions of S have made
RECURSIVE Calls(_)
Calls(S) ==
  IF S = {} THEN 0
  ELSE LET c == CHOOSE x \in S : TRUE IN calls[c].n + Calls(S \ {c})

\* no api call of client c awaits a response
Settled(c) == calls[c].pc \in {"idle", "done", "failed"}

\* client c may start a call
Ready(c) == Settled(c) /\ Calls(Clients) < MaxCalls

\* useState<number | null>(null): the score while no result is shown
NoScore == -1

\* the CourseRoom component before it is mounted: course and enrollment null,
\* viewMode 'content', score null; stage and pending are the position of
\* loadData and of the handler that awaits a response
RoomClosed ==
  [stage |-> "closed", course |-> NoBody, enrollment |-> NoBody,
   activeModule |-> NoId, viewMode |-> "content", score |-> NoScore,
   pending |-> "none"]

\* the app before AuthProvider's effect has run, at the LoginPage: user null,
\* isLoading true, no error
PageInit ==
  [user |-> NoBody, isLoading |-> TRUE, path |-> "/", preview |-> FALSE,
   error |-> ""]

ClientInit ==
  /\ raced = FALSE
  /\ localStorage = [c \in Clients |-> NoBody]
  /\ rooms = [c \in Clients |-> RoomClosed]
  /\ pages = [c \in Clients |-> PageInit]
  /\ calls = [c \in Clients |-> CallIdle(0)]

\* CallIdle: arg holds the arguments of the call, sent the body it posts or
\* puts, todo the requests it has still to send, result what it resolves
\* with, error the message it rejects with

\* the request of client c that waits for its body is processed and the
\* response reaches the client; request() throws unless response.ok
Returned(c, diskOk) ==
  \E s \in Slots :
    /\ inflight[s].busy
    /\ inflight[s].owner = c
    /\ Process(s, diskOk)

ResponseOk == lastOp'.status >= 200 /\ lastOp'.status < 300

\* enrollments.find(e => e.userId === userId && e.courseId === courseId)
findEnrollment(enrollments, userId, courseId) ==
  FindIndex(enrollments, {e \in Range(enrollments) :
                            Get(e, "userId") = userId /\ Get(e, "courseId") = courseId})

\* api.enrollUser, up to the existence check on the fetched list
enrollUserGet(c, userId, courseId, diskOk) ==
  /\ Ready(c)
  /\ Arrive(Req("GET", "enrollments", NoId, NoBody), c, diskOk)
  /\ LET enrollments == lastOp'.body
         idx == findEnrollment(enrollments, userId, courseId)
         newEnrollment ==
           [id |-> RandomId(c, calls[c].n + 1), userId |-> userId,
            courseId |-> courseId, completedModuleIds |-> <<>>, passed |-> FALSE,
            enrolledAt |-> Now]
     IN calls' = [calls EXCEPT ![c] =
          IF idx # 0
          THEN [CallIdle(@.n + 1) EXCEPT !.pc = "done", !.op = "enrollUser",
                                         !.result = enrollments[idx], !.status = 200]
          ELSE [CallIdle(@.n + 1) EXCEPT !.pc = "post", !.op = "enrollUser",
                                         !.sent = newEnrollment]]
  /\ UNCHANGED <<raced, pages, localStorage, rooms>>

\* api.enrollUser: the POST of the new enrollment is sent
enrollUserPost(c, diskOk) ==
  /\ calls[c].pc = "post"
  /\ calls[c].op = "enrollUser"
  /\ Arrive(Req("POST", "enrollments", NoId, Json(stringify(calls[c].sent))), c, diskOk)
  /\ calls' = [calls EXCEPT ![c].pc = "await"]
  /\ UNCHANGED <<raced, pages, localStorage, rooms>>

\* api.enrollUser: the POST is answered and newEnrollment returned
enrollUserReturn(c, diskOk) ==
  /\ calls[c].pc = "await"
  /\ calls[c].op = "enrollUser"
  /\ Returned(c, diskOk)
  /\ calls' = [calls EXCEPT ![c] =
       IF ResponseOk
       THEN [@ EXCEPT !.pc = "done", !.result = calls[c].sent,
                      !.status = lastOp'.status]
       ELSE [@ EXCEPT !.pc = "failed", !.status = lastOp'.status, !.error = "API Error"]]
  /\ UNCHANGED <<raced, pages, localStorage, rooms>>

\* Sessions of learner u1 enroll in the courses c1 and c2 (LearnerDashboard
\* init enrolls the user in every published course).  Only a request that
\* writes the store meets a failing disk.
InitEnroll == ServerInit /\ track = {} /\ ClientInit

EnrollGet ==
  \E c \in Clients, course \in {"c1", "c2"} : enrollUserGet(c, "u1", course, TRUE)
EnrollPost == \E c \in Clients : enrollUserPost(c, TRUE)
EnrollReturn == \E c \in Clients, ok \in BOOLEAN : enrollUserReturn(c, ok)

NextEnroll == EnrollGet \/ EnrollPost \/ EnrollReturn

SpecEnroll == InitEnroll /\ [][NextEnroll]_vars

\* the (userId, courseId) of an enrollment
PairOf(e) == <<Get(e, "userId"), Get(e, "courseId")>>

\* two enrollments of collection value enrollments share (userId, courseId)
DupPair(enrollments) ==
  \E i, j \in DOMAIN enrollments : i < j /\ PairOf(enrollments[i]) = PairOf(enrollments[j])

\* the last call of client c was an enrollUser for course that created an
\* enrollment: its POST was answered 201
Created(c, course) ==
  /\ calls[c].pc = "done" /\ calls[c].op = "enrollUser" /\ calls[c].status = 201
  /\ calls[c].result.courseId = course

\* C2 as stated: once two overlapping api.enrollUser calls for one
\* (userId, courseId) have both been answered 201, the store holds two
\* enrollments with that pair.
C2_Original ==
  (\E c, d \in Clients : c # d /\ Created(c, "c1") /\ Created(d, "c1"))
    => DupPair(Store.enrollments)

\* C2 amended: no store state holds two enrollments with one (userId,
\* courseId): the body callback checks and appends on one object in one tick,
\* so of two overlapping creations the later write replaces the earlier and
\* only one of the two acknowledged enrollments is stored.
C2_NoDuplicate ==
  /\ ~DupPair(Store.enrollments)
  /\ ~DupPair(disk.enrollments)
  /\ \A o \in ObjIds : ~DupPair(heap[o].enrollments)

\* both calls were answered 201 and the store holds one enrollment
C2_Witness ==
  /\ Created(1, "c1") /\ Created(2, "c1")
  /\ Len(Store.enrollments) = 1
  /\ Store.enrollments[1] = stringify(calls[2].result)

\* C9 as stated: the existence check of POST /api/enrollments is made against
\* the store.
C9_Original ==
  [][\A s \in Slots :
       (Processed(s) /\ IsPost(inflight[s].req, "enrollments"))
         => LET b == readBody(inflight[s].req.body)
                idx == FindIndex(Store.enrollments,
                                 {e \in Range(Store.enrollments) : PairOf(e) = PairOf(b)})
            IN IF idx # 0
               THEN /\ lastOp'.body = Store.enrollments[idx]
                    /\ readDB' = readDB
               ELSE /\ lastOp'.status = 201
                    /\ readDB'.enrollments = Append(readDB.enrollments, b)]_vars

\* C9 amended: the check is made against the db object the request got from
\* readDB on arrival (a snapshot parsed from the file, or MEMORY_DB itself in
\* memory mode): if it holds an enrollment with the body's (userId, courseId)
\* the first such is the answer and nothing is written; only otherwise is the
\* body appended to that object, the object written as the store and 201
\* answered.
C9_CheckOnSnapshot ==
  [][\A s \in Slots :
       (Processed(s) /\ IsPost(inflight[s].req, "enrollments"))
         => LET b == readBody(inflight[s].req.body)
                snap == heap[inflight[s].ptr].enrollments
                idx == FindIndex(snap, {e \in Range(snap) : PairOf(e) = PairOf(b)})
            IN IF idx # 0
               THEN /\ lastOp'.status = 200
                    /\ lastOp'.body = snap[idx]
                    /\ readDB' = readDB
               ELSE /\ lastOp'.status = 201
                    /\ lastOp'.body = b
                    /\ readDB'.enrollments = Append(snap, b)]_vars

\* a POST for a pair its snapshot held was answered with the stored enrollment
C9_Witness ==
  /\ lastOp.req.method = "POST" /\ lastOp.req.coll = "enrollments"
  /\ lastOp.status = 200
  /\ lastOp.body = Store.enrollments[1]
  /\ lastOp.body # lastOp.req.body.val

----------------------------------------------------------------------------
(* api.register from several browser sessions *)

\* users.find(u => u.email === email)
findPassword(users, email) ==
  FindIndex(users, {u \in Range(users) : Get(u, "password") = email})
findEmail(users, email) ==
  FindIndex(users, {u \in Range(users) : Get(u, "email") = email})

\* a register call of another client has fetched the users and not yet had
\* its POST answered
RegisterUnderway(c) ==
  \E d \in Clients \ {c} : calls[d].op = "register" /\ calls[d].pc \in {"post", "await"}

\* api.register up to the email check on the fetched users
registerGet(c, email, password, name, diskOk) ==
  /\ Ready(c)
  /\ Arrive(Req("GET", "users", NoId, NoBody), c, diskOk)
  /\ LET users == lastOp'.body
         newUser == [id |-> RandomId(c, calls[c].n + 1), email |-> email,
                     name |-> name, role |-> "learner", password |-> password,
                     joinedAt |-> Now]
         exists == findEmail(users, email) # 0
         args == [email |-> email, password |-> password, name |-> name]
     IN /\ calls' = [calls EXCEPT ![c] =
             IF exists
             THEN [CallIdle(@.n + 1) EXCEPT !.pc = "failed", !.op = "register",
                                            !.arg = args,
                                            !.error = "User already exists"]
             ELSE [CallIdle(@.n + 1) EXCEPT !.pc = "post", !.op = "register",
                                            !.arg = args, !.sent = newUser]]
        /\ raced' = (raced \/ (~exists /\ RegisterUnderway(c)))
  /\ UNCHANGED <<localStorage, rooms, pages>>

\* api.register: the POST of newUser is sent
registerPost(c, diskOk) ==
  /\ calls[c].pc = "post"
  /\ calls[c].op = "register"
  /\ Arrive(Req("POST", "users", NoId, Json(stringify(calls[c].sent))), c, diskOk)
  /\ calls' = [calls EXCEPT ![c].pc = "await"]
  /\ UNCHANGED <<raced, pages, localStorage, rooms>>

\* api.register: the POST is answered, newUser becomes the current user
registerReturn(c, diskOk) ==
  /\ calls[c].pc = "await"
  /\ calls[c].op = "register"
  /\ Returned(c, diskOk)
  /\ IF ResponseOk
     THEN /\ calls' = [calls EXCEPT ![c] =
                         [@ EXCEPT !.pc = "done", !.result = calls[c].sent,
                                   !.status = lastOp'.status]]
          /\ localStorage' = [localStorage EXCEPT ![c] = Json(stringify(calls[c].sent))]
     ELSE /\ calls' = [calls EXCEPT ![c] =
                         [@ EXCEPT !.pc = "failed", !.status = lastOp'.status,
                                   !.error = "API Error"]]
          /\ UNCHANGED localStorage
  /\ UNCHANGED <<raced, pages, rooms>>

Emails == {"a@lms.com", "b@lms.com"}

InitRegister == ServerInit /\ track = {} /\ ClientInit

RegisterGet ==
  \E c \in Clients, email \in Emails : registerGet(c, email, "pw1", "N", TRUE)
RegisterPost == \E c \in Clients : registerPost(c, TRUE)
RegisterReturn == \E c \in Clients, ok \in BOOLEAN : registerReturn(c, ok)

NextRegister == RegisterGet \/ RegisterPost \/ RegisterReturn

SpecRegister == InitRegister /\ [][NextRegister]_vars

\* two users of collection value users share an email
DupEmail(users) ==
  \E i, j \in DOMAIN users : i < j /\ Get(users[i], "email") = Get(users[j], "email")

\* C10 as stated: after any interleaving of api.register calls no two stored
\* users share an email.
C10_Original == ~DupEmail(Store.users)

\* C10 amended: as long as no api.register call has passed its email check
\* while another register call was between its GET and the answer to its POST,
\* no two stored users share an email.
C10_UniqueEmail == ~raced => ~DupEmail(Store.users)

\* a@lms.com was registered by one session; the other session's later call for
\* it was refused on the fetched list
C10_Witness ==
  /\ ~raced
  /\ calls[1].op = "register" /\ calls[1].pc = "done"
  /\ calls[1].result.email = "a@lms.com"
  /\ calls[2].op = "register" /\ calls[2].pc = "failed"
  /\ calls[2].error = "User already exists"
  /\ Len(Store.users) = 1

\* client c starts the call op in this step
Starts(c, op) == calls'[c].n = calls[c].n + 1 /\ calls'[c].op = op

\* the request client c awaits is answered in this step
Answered(c, op) == calls[c].op = op /\ calls[c].pc = "await" /\ calls'[c].pc # "await"

\* the slot holding the request client c awaits
SlotOf(c) == CHOOSE s \in Slots : inflight[s].busy /\ inflight[s].owner = c

\* C11: api.register called with an email a stored user has rejects with
\* 'User already exists', sends no POST and leaves the store and the current
\* user as they were; otherwise it posts one user with that email and role
\* 'learner', the POST is answered 201 and appends that user to the users
\* its request read, and the user becomes the current user.  No stored user
\* has role 'admin'.
C11_Register ==
  [][\A c \in Clients :
       /\ Starts(c, "register") =>
            IF \E u \in Range(Store.users) : Get(u, "email") = calls'[c].arg.email
            THEN /\ calls'[c].pc = "failed"
                 /\ calls'[c].error = "User already exists"
                 /\ Store' = Store
                 /\ inflight' = inflight
                 /\ localStorage' = localStorage
            ELSE /\ calls'[c].pc = "post"
                 /\ calls'[c].sent.email = calls'[c].arg.email
                 /\ calls'[c].sent.role = "learner"
                 /\ Store' = Store
       /\ Answered(c, "register") =>
            /\ calls'[c].pc = "done"
            /\ lastOp'.status = 201
            /\ Store'.users = Append(heap[inflight[SlotOf(c)].ptr].users, calls[c].sent)
            /\ calls[c].sent \notin Range(heap[inflight[SlotOf(c)].ptr].users)
            /\ localStorage'[c] = Json(calls[c].sent)
            /\ calls'[c].result = calls[c].sent
       /\ \A u \in Range(Store'.users) : Get(u, "role") # "admin"]_vars

\* a session that registered b@lms.com is refused a@lms.com, which the other
\* session registered: its current user is still the b@lms.com user
C11_Witness ==
  /\ calls[1].op = "register" /\ calls[1].pc = "failed"
  /\ calls[1].error = "User already exists"
  /\ calls[1].arg.email = "a@lms.com"
  /\ localStorage[1] # NoBody
  /\ localStorage[1].val.email = "b@lms.com"
  /\ calls[2].pc = "done" /\ calls[2].result.email = "a@lms.com"
  /\ Len(Store.users) = 2

----------------------------------------------------------------------------
(* pages/learner/LearnerDashboard.tsx: CourseRoom, outside preview mode, in
   the browser sessions of one learner.  A session sends its next request
   once the previous one is answered and leaves the room only when none is
   awaited. *)

UserL == [id |-> "u1", email |-> "a@lms.com", name |-> "A", role |-> "learner",
          password |-> "pw1", joinedAt |-> Now]

\* a published course as CourseEditor saves it: two modules, one question,
\* passingScore 70
CourseL ==
  [id |-> "c1", status |-> "published",
   modules |-> <<[id |-> "m1", type |-> "text"], [id |-> "m2", type |-> "text"]>>,
   assessment |->
     [questions |-> <<[id |-> "q1", correctOptionIndex |-> 0]>>,
      passingScore |-> 70]]

\* the enrollment api.enrollUser created for (u1, c1)
EnrL ==
  [id |-> "e1", userId |-> "u1", courseId |-> "c1", completedModuleIds |-> <<>>,
   passed |-> FALSE, enrolledAt |-> Now]

\* the radio buttons of a question
Options == {0, 1}

\* const { user } = useAuth(); const { courseId } = useParams()
user(c) == localStorage[c].val
courseId == "c1"

\* api.getEnrollments(userId): all.filter(e => e.userId === userId)
getEnrollments(all, userId) ==
  Filter(all, {e \in Range(all) : Get(e, "userId") = userId})

\* enr.find(e => e.courseId === courseId) || null
findCourseEnrollment(enr) ==
  LET idx == FindIndex(enr, {e \in Range(enr) : Get(e, "courseId") = courseId})
  IN IF idx # 0 THEN Json(enr[idx]) ELSE NoBody

\* the room shows the course (if (!course || !enrollment) return Loading) and
\* the session awaits no response
Rendered(c) ==
  /\ rooms[c].pending = "none"
  /\ Settled(c)
  /\ rooms[c].stage = "ready"
  /\ rooms[c].course # NoBody
  /\ rooms[c].enrollment # NoBody

\* a CourseRoom that never reads ?preview=true
notPreview(c) == FALSE

\* new URLSearchParams(location.search).get('preview') === 'true'
isPreview(c) == pages[c].preview

\* the mock enrollment of preview mode
PreviewEnrollment ==
  [userId |-> "preview", courseId |-> courseId, completedModuleIds |-> <<>>,
   passed |-> FALSE, enrolledAt |-> Now]

\* loadData up to setCourse(c); in preview mode it goes on, without a
\* request, to the mock enrollment and the first module
loadDataCourses(c, diskOk) ==
  /\ rooms[c].stage = "closed"
  /\ Settled(c)
  /\ Arrive(Req("GET", "courses", NoId, NoBody), c, diskOk)
  /\ LET courses == lastOp'.body
         idx == FindIndex(courses, {x \in Range(courses) : Get(x, "id") = courseId})
     IN rooms' = [rooms EXCEPT ![c] =
          IF idx = 0
          THEN [RoomClosed EXCEPT !.stage = "ready"]
          ELSE IF isPreview(c)
          THEN [RoomClosed EXCEPT
                  !.stage = "ready", !.course = Json(courses[idx]),
                  !.enrollment = Json(PreviewEnrollment),
                  !.activeModule = IF Len(courses[idx].modules) > 0
                                   THEN courses[idx].modules[1].id ELSE NoId]
          ELSE [RoomClosed EXCEPT !.stage = "loading", !.course = Json(courses[idx])]]
  /\ UNCHANGED <<raced, pages, localStorage, calls>>

\* loadData from api.getEnrollments on
loadDataEnrollments(c, diskOk) ==
  /\ rooms[c].stage = "loading"
  /\ Arrive(Req("GET", "enrollments", NoId, NoBody), c, diskOk)
  /\ LET enr == getEnrollments(lastOp'.body, user(c).id)
         modules == rooms[c].course.val.modules
     IN rooms' = [rooms EXCEPT ![c] =
          [@ EXCEPT !.stage = "ready",
                    !.enrollment = findCourseEnrollment(enr),
                    !.activeModule = IF Len(modules) > 0 THEN modules[1].id ELSE NoId]]
  /\ UNCHANGED <<raced, pages, localStorage, calls>>

\* isModuleComplete(modId)
isModuleComplete(c, modId) ==
  modId \in Range(rooms[c].enrollment.val.completedModuleIds)

\* isPreview ? true : (course && enrollment && course.modules.every(m =>
\*   enrollment.completedModuleIds.includes(m.id)))
allModulesComplete(c) ==
  \/ isPreview(c)
  \/ /\ rooms[c].course # NoBody
     /\ rooms[c].enrollment # NoBody
     /\ \A m \in Range(rooms[c].course.val.modules) : isModuleComplete(c, m.id)

\* Array.from(new Set(ids).add(modId))
addToSet(ids, modId) == IF modId \in Range(ids) THEN ids ELSE Append(ids, modId)

\* api.updateProgress up to the PUT: the enrollments are fetched and the
\* updates merged over the stored enrollment of (userId, courseId); room is
\* the state the calling handler has set before its await
updateProgressGet(c, room, userId, updates, caller, diskOk) ==
  /\ Ready(c)
  /\ Arrive(Req("GET", "enrollments", NoId, NoBody), c, diskOk)
  /\ LET enrollments == lastOp'.body
         idx == findEnrollment(enrollments, userId, courseId)
     IN IF idx = 0
        THEN /\ calls' = [calls EXCEPT ![c] =
                  [CallIdle(@.n + 1) EXCEPT !.pc = "failed", !.op = "updateProgress",
                                            !.error = "Enrollment not found"]]
             /\ rooms' = [rooms EXCEPT ![c] = [room EXCEPT !.pending = "none"]]
        ELSE /\ calls' = [calls EXCEPT ![c] =
                  [CallIdle(@.n + 1) EXCEPT !.pc = "post", !.op = "updateProgress",
                                            !.sent = Spread(enrollments[idx], updates)]]
             /\ rooms' = [rooms EXCEPT ![c] = [room EXCEPT !.pending = caller]]

\* Math.round(num / den) for num >= 0, den > 0: halves round up
Round(num, den) == (2 * num + den) \div (2 * den)

\* Math.round((k / n) * 100): 0 / 0 is NaN, and so is its rounding
percent(k, n) == IF n = 0 THEN NaN ELSE Round(k * 100, n)

\* the number of questions answered with the correct option
correctCount(questions, answers) ==
  Cardinality({i \in DOMAIN questions :
                 answers[questions[i].id] = questions[i].correctOptionIndex})

\* sidebar: a module is opened
setActiveModule(c) ==
  /\ Rendered(c)
  /\ \E m \in Range(rooms[c].course.val.modules) :
       /\ <<rooms[c].activeModule, rooms[c].viewMode>> # <<m.id, "content">>
       /\ rooms' = [rooms EXCEPT ![c].activeModule = m.id, ![c].viewMode = "content"]
  /\ UNCHANGED <<disk, heap, MEMORY_DB, USING_MEMORY_DB, inflight, lastOp, acked,
                 deleted, track, raced, pages, localStorage, calls>>

\* markComplete(activeModule.id), the button shown while the module is not
\* complete in the session's enrollment
markComplete(c, diskOk) ==
  /\ ~isPreview(c)
  /\ Rendered(c)
  /\ rooms[c].viewMode = "content"
  /\ rooms[c].activeModule # NoId
  /\ ~isModuleComplete(c, rooms[c].activeModule)
  /\ LET completed == addToSet(rooms[c].enrollment.val.completedModuleIds,
                               rooms[c].activeModule)
     IN updateProgressGet(c, rooms[c], user(c).id,
                          [completedModuleIds |-> completed], "markComplete", diskOk)
  /\ UNCHANGED <<raced, pages, localStorage>>

\* the Final Assessment button, disabled={!allModulesComplete}
openAssessment(c) ==
  /\ Rendered(c)
  /\ allModulesComplete(c)
  /\ rooms[c].viewMode # "assessment"
  /\ rooms' = [rooms EXCEPT ![c].viewMode = "assessment"]
  /\ UNCHANGED <<disk, heap, MEMORY_DB, USING_MEMORY_DB, inflight, lastOp, acked,
                 deleted, track, raced, pages, localStorage, calls>>

\* handleAssessmentSubmit, the answers being those the radio buttons hold
handleAssessmentSubmit(c, answers, diskOk) ==
  /\ ~isPreview(c)
  /\ Rendered(c)
  /\ rooms[c].viewMode = "assessment"
  /\ rooms[c].score = NoScore
  /\ "assessment" \in DOMAIN rooms[c].course.val
  /\ LET assessment == rooms[c].course.val.assessment
         finalScore == percent(correctCount(assessment.questions, answers),
                               Len(assessment.questions))
         passed == geq(finalScore, assessment.passingScore)
     IN updateProgressGet(c, [rooms[c] EXCEPT !.score = finalScore], user(c).id,
                          [assessmentScore |-> finalScore, passed |-> passed,
                           certifiedAt |-> IF passed THEN Now ELSE Undefined],
                          "submit", diskOk)
  /\ UNCHANGED <<raced, pages, localStorage>>

\* api.updateProgress: the PUT of the merged enrollment is sent
updateProgressPut(c, diskOk) ==
  /\ calls[c].pc = "post"
  /\ calls[c].op = "updateProgress"
  /\ Arrive(Req("PUT", "enrollments", calls[c].sent.id, Json(stringify(calls[c].sent))),
            c, diskOk)
  /\ calls' = [calls EXCEPT ![c].pc = "await"]
  /\ UNCHANGED <<raced, pages, localStorage, rooms>>

\* api.updateProgress: the PUT is answered.  markComplete then sets the
\* enrollment to the merged one; handleAssessmentSubmit goes on to refresh it
updateProgressReturn(c, diskOk) ==
  /\ calls[c].pc = "await"
  /\ calls[c].op = "updateProgress"
  /\ Returned(c, diskOk)
  /\ IF ResponseOk
     THEN /\ calls' = [calls EXCEPT ![c] =
                         [@ EXCEPT !.pc = "done", !.result = calls[c].sent,
                                   !.status = lastOp'.status]]
          /\ rooms' = [rooms EXCEPT ![c] =
                         IF @.pending = "markComplete"
                         THEN [@ EXCEPT !.enrollment = Json(calls[c].sent),
                                        !.pending = "none"]
                         ELSE [@ EXCEPT !.pending = "refresh"]]
     ELSE /\ calls' = [calls EXCEPT ![c] =
                         [@ EXCEPT !.pc = "failed", !.status = lastOp'.status,
                                   !.error = "API Error"]]
          /\ rooms' = [rooms EXCEPT ![c].pending = "none"]
  /\ UNCHANGED <<raced, pages, localStorage>>

\* handleAssessmentSubmit after the update: the enrollment is fetched again
refreshEnrollment(c, diskOk) ==
  /\ rooms[c].pending = "refresh"
  /\ Arrive(Req("GET", "enrollments", NoId, NoBody), c, diskOk)
  /\ rooms' = [rooms EXCEPT ![c] =
       [@ EXCEPT !.enrollment =
                   findCourseEnrollment(getEnrollments(lastOp'.body, user(c).id)),
                 !.pending = "none"]]
  /\ UNCHANGED <<raced, pages, localStorage, calls>>

\* an assessment that allows one attempt only
singleAttempt(c) == FALSE /\ UNCHANGED vars

\* Try Again, shown with a score below the passing score
tryAgain(c) ==
  /\ Rendered(c)
  /\ rooms[c].viewMode = "assessment"
  /\ rooms[c].score # NoScore
  /\ ~geq(rooms[c].score, rooms[c].course.val.assessment.passingScore)
  /\ rooms' = [rooms EXCEPT ![c].score = NoScore]
  /\ UNCHANGED <<disk, heap, MEMORY_DB, USING_MEMORY_DB, inflight, lastOp, acked,
                 deleted, track, raced, pages, localStorage, calls>>

\* Certificate Available in the header, View Certificate under a passing score
viewCertificate(c) ==
  /\ Rendered(c)
  /\ rooms[c].viewMode # "certificate"
  /\ \/ rooms[c].enrollment.val.passed
     \/ /\ rooms[c].viewMode = "assessment"
        /\ rooms[c].score # NoScore
        /\ geq(rooms[c].score, rooms[c].course.val.assessment.passingScore)
  /\ rooms' = [rooms EXCEPT ![c].viewMode = "certificate"]
  /\ UNCHANGED <<disk, heap, MEMORY_DB, USING_MEMORY_DB, inflight, lastOp, acked,
                 deleted, track, raced, pages, localStorage, calls>>

\* the back arrow: the component is unmounted and its state dropped
leaveRoom(c) ==
  /\ rooms[c].stage = "ready"
  /\ rooms[c].pending = "none"
  /\ Settled(c)
  /\ rooms' = [rooms EXCEPT ![c] = RoomClosed]
  /\ UNCHANGED <<disk, heap, MEMORY_DB, USING_MEMORY_DB, inflight, lastOp, acked,
                 deleted, track, raced, pages, localStorage, calls>>

\* the store holds the learner, the course and the learner's enrollment, and
\* every session is logged in as the learner
StoreL == [users |-> <<UserL>>, courses |-> <<CourseL>>, enrollments |-> <<EnrL>>]

InitLearner ==
  /\ disk = StoreL
  /\ heap = [o \in ObjIds |-> IF o = 0 THEN StoreL ELSE EmptyDB]
  /\ MEMORY_DB = 0
  /\ USING_MEMORY_DB \in BOOLEAN
  /\ inflight = [s \in Slots |-> Idle]
  /\ lastOp = NoOp
  /\ acked = {}
  /\ deleted = {}
  /\ track = {}
  /\ raced = FALSE
  /\ localStorage = [c \in Clients |-> Json(UserL)]
  /\ rooms = [c \in Clients |-> RoomClosed]
  /\ pages = [c \in Clients |-> PageInit]
  /\ calls = [c \in Clients |-> CallIdle(0)]

LoadCourses == \E c \in Clients : loadDataCourses(c, TRUE)
LoadEnrollments == \E c \in Clients : loadDataEnrollments(c, TRUE)
SetActiveModule == \E c \in Clients : setActiveModule(c)
MarkComplete == \E c \in Clients : markComplete(c, TRUE)
OpenAssessment == \E c \in Clients : openAssessment(c)
Submit ==
  \E c \in Clients, answers \in [{"q1"} -> Options] :
    handleAssessmentSubmit(c, answers, TRUE)
UpdatePut == \E c \in Clients : updateProgressPut(c, TRUE)
UpdateReturn == \E c \in Clients : updateProgressReturn(c, TRUE)
Refresh == \E c \in Clients : refreshEnrollment(c, TRUE)
TryAgain == \E c \in Clients : tryAgain(c)
ViewCertificate == \E c \in Clients : viewCertificate(c)
LeaveRoom == \E c \in Clients : leaveRoom(c)

NextLearner ==
  \/ LoadCourses \/ LoadEnrollments \/ SetActiveModule \/ MarkComplete
  \/ OpenAssessment \/ Submit \/ UpdatePut \/ UpdateReturn \/ Refresh
  \/ TryAgain \/ ViewCertificate \/ LeaveRoom

SpecLearner == InitLearner /\ [][NextLearner]_vars

\* the stored enrollment of the learner
StoredEnrollment == Store.enrollments[1]

\* every module id of the stored course is in the stored enrollment's
\* completedModuleIds
StoredComplete ==
  \A m \in Range(Store.courses[1].modules) :
    m.id \in Range(StoredEnrollment.completedModuleIds)

\* the PUT sent by handleAssessmentSubmit in session c is processed and
\* answered 200 in this step
ResultWritten(c) ==
  /\ rooms[c].pending = "submit"
  /\ calls[c].pc = "await"
  /\ calls'[c].pc = "done"

\* C3: an assessment result is written to an enrollment only when, at the
\* time of the write, every module id of the stored course is in the stored
\* enrollment's completedModuleIds.
C3_ResultOnlyWhenComplete ==
  [][\A c \in Clients : ResultWritten(c) => StoredComplete]_vars

\* C4: once the stored enrollment has passed = true, every later step leaves
\* it with passed = true.
C4_PassedIsTerminal ==
  [][StoredEnrollment.passed => StoredEnrollment'.passed]_vars

\* C5: in every store state an enrollment has passed = true exactly if it
\* carries a certifiedAt timestamp.
C5_PassedIffCertified ==
  \A e \in Range(Store.enrollments) : e.passed <=> ("certifiedAt" \in DOMAIN e)

----------------------------------------------------------------------------
(* App.tsx (AuthProvider, RequireAuth, routes), LoginPage and api.login: the
   sessions log in and out, change passwords and move between the routes.  A
   session navigates only while it awaits no response. *)

\* initializeData: the users and the course it seeds on an empty server
SeedAdmin ==
  [id |-> "admin-1", email |-> "admin@lms.com", name |-> "System Administrator",
   role |-> "admin", password |-> "admin123", joinedAt |-> Now]
SeedLearner ==
  [id |-> "learner-1", email |-> "learner@lms.com", name |-> "John Learner",
   role |-> "learner", password |-> "learner123", joinedAt |-> Now]
DemoCourse ==
  [id |-> "demo-1", status |-> "published",
   modules |-> <<[id |-> "m-1", type |-> "video"], [id |-> "m-2", type |-> "text"]>>,
   assessment |->
     [questions |-> <<[id |-> "q-1", correctOptionIndex |-> 1]>>,
      passingScore |-> 70]]

\* users.find(u => u.email === email && u.password === password)
findCredentials(users, email, password) ==
  FindIndex(users, {u \in Range(users) :
                      Get(u, "email") = email /\ Get(u, "password") = password})

\* users.find(u => u.email === email)
findByEmail(users, email) ==
  FindIndex(users, {u \in Range(users) : Get(u, "email") = email})

\* the element of users at idx, null for idx = 0
At(users, idx) == IF idx = 0 THEN NoBody ELSE Json(users[idx])

AccessDenied == "Access Denied. Please log in using the correct portal for your role."

\* requiredRole && user.role !== requiredRole
anyRole(found, requiredRole) == FALSE
wrongRole(found, requiredRole) ==
  requiredRole # Undefined /\ Get(found, "role") # requiredRole

\* api.login from "if (user)" on, and LoginPage.handleLogin after the await;
\* found is the user the search gave or null, call and page the session's
\* call and page as this step leaves them otherwise
loginSettle(c, call, page, found) ==
  IF found # NoBody /\ ~wrongRole(found.val, call.arg.requiredRole)
  THEN /\ localStorage' = [localStorage EXCEPT ![c] = found]
       /\ pages' = [pages EXCEPT ![c] =
            [page EXCEPT !.user = found,
                         !.path = IF Get(found.val, "role") = "admin"
                                  THEN "/admin" ELSE "/learner",
                         !.preview = FALSE]]
       /\ calls' = [calls EXCEPT ![c] = [call EXCEPT !.pc = "done", !.result = found.val]]
  ELSE LET message == IF found = NoBody THEN "Invalid credentials" ELSE AccessDenied
       IN /\ pages' = [pages EXCEPT ![c] = [page EXCEPT !.error = message]]
          /\ calls' = [calls EXCEPT ![c] = [call EXCEPT !.pc = "failed", !.error = message]]
          /\ UNCHANGED localStorage

\* LoginPage.handleLogin and api.login up to the first search: the users are
\* fetched and searched for the credentials; the default admin credentials,
\* when not found, go on to initializeData
handleLogin(c, email, password, requiredRole) ==
  /\ Ready(c)
  /\ Arrive(Req("GET", "users", NoId, NoBody), c, TRUE)
  /\ LET users == lastOp'.body
         idx == findCredentials(users, email, password)
         call == [CallIdle(calls[c].n + 1) EXCEPT
                    !.op = "login",
                    !.arg = [email |-> email, password |-> password,
                             requiredRole |-> requiredRole]]
         page == [pages[c] EXCEPT !.error = ""]
     IN IF idx = 0 /\ email = "admin@lms.com" /\ password = "admin123"
        THEN /\ calls' = [calls EXCEPT ![c] = [call EXCEPT !.pc = "init.users"]]
             /\ pages' = [pages EXCEPT ![c] = page]
             /\ UNCHANGED localStorage
        ELSE loginSettle(c, call, page, At(users, idx))
  /\ UNCHANGED <<raced, rooms>>

\* initializeData: the users are fetched
initUsers(c) ==
  /\ calls[c].pc = "init.users"
  /\ Arrive(Req("GET", "users", NoId, NoBody), c, TRUE)
  /\ calls' = [calls EXCEPT ![c].pc = "init.courses",
                            ![c].todo = IF Len(lastOp'.body) = 0
                                        THEN <<[coll |-> "users", body |-> SeedAdmin],
                                               [coll |-> "users", body |-> SeedLearner]>>
                                        ELSE <<>>]
  /\ UNCHANGED <<raced, localStorage, rooms, pages>>

\* initializeData: the courses are fetched; what is empty will be seeded
initCourses(c) ==
  /\ calls[c].pc = "init.courses"
  /\ Arrive(Req("GET", "courses", NoId, NoBody), c, TRUE)
  /\ LET todo == calls[c].todo \o
                   (IF Len(lastOp'.body) = 0
                    THEN <<[coll |-> "courses", body |-> DemoCourse]>> ELSE <<>>)
     IN calls' = [calls EXCEPT ![c].todo = todo,
                               ![c].pc = IF todo = <<>> THEN "refetch" ELSE "seed.post"]
  /\ UNCHANGED <<raced, localStorage, rooms, pages>>

\* initializeData: the next seed is posted
seedPost(c) ==
  /\ calls[c].pc = "seed.post"
  /\ Arrive(Req("POST", Head(calls[c].todo).coll, NoId,
                Json(stringify(Head(calls[c].todo).body))), c, TRUE)
  /\ calls' = [calls EXCEPT ![c].pc = "seed.await"]
  /\ UNCHANGED <<raced, localStorage, rooms, pages>>

\* initializeData: the seed's POST is answered; a failure ends the seeding
\* (the catch of initializeData)
seedReturn(c, diskOk) ==
  /\ calls[c].pc = "seed.await"
  /\ Returned(c, diskOk)
  /\ calls' = [calls EXCEPT ![c].todo = Tail(@),
                            ![c].pc = IF ResponseOk /\ Tail(calls[c].todo) # <<>>
                                      THEN "seed.post" ELSE "refetch"]
  /\ UNCHANGED <<raced, localStorage, rooms, pages>>

\* api.login after initializeData: the users are fetched again and searched
\* for the email
loginRefetch(c) ==
  /\ calls[c].pc = "refetch"
  /\ calls[c].op = "login"
  /\ Arrive(Req("GET", "users", NoId, NoBody), c, TRUE)
  /\ LET users == lastOp'.body
     IN loginSettle(c, calls[c], pages[c],
                    At(users, findByEmail(users, calls[c].arg.email)))
  /\ UNCHANGED <<raced, rooms>>

\* api.adminResetUserPassword: the PATCH is sent
adminResetUserPassword(c, userId, newPassword) ==
  /\ Ready(c)
  /\ Arrive(Req("PATCH", "users", userId, Json([password |-> newPassword])), c, TRUE)
  /\ calls' = [calls EXCEPT ![c] =
       [CallIdle(@.n + 1) EXCEPT !.pc = "await", !.op = "adminResetUserPassword",
                                 !.arg = [userId |-> userId, newPassword |-> newPassword],
                                 !.sent = [password |-> newPassword]]]
  /\ UNCHANGED <<raced, localStorage, rooms, pages>>

\* api.adminResetUserPassword: the PATCH is answered
adminResetReturn(c, diskOk) ==
  /\ calls[c].pc = "await"
  /\ calls[c].op = "adminResetUserPassword"
  /\ Returned(c, diskOk)
  /\ calls' = [calls EXCEPT ![c] =
       IF ResponseOk
       THEN [@ EXCEPT !.pc = "done", !.status = lastOp'.status]
       ELSE [@ EXCEPT !.pc = "failed", !.status = lastOp'.status, !.error = "API Error"]]
  /\ UNCHANGED <<raced, localStorage, rooms, pages>>

\* the routes of App: the page of a path and the role its RequireAuth asks
Paths == {"/", "/reset-password", "/admin", "/admin/courses/new",
          "/admin/courses/:courseId", "/learner", "/learner/course/:courseId"}

RoutePage(path) ==
  CASE path = "/" -> "LoginPage"
    [] path = "/reset-password" -> "ResetPasswordPage"
    [] path = "/admin" -> "AdminDashboard"
    [] path \in {"/admin/courses/new", "/admin/courses/:courseId"} -> "CourseEditor"
    [] path = "/learner" -> "LearnerDashboard"
    [] path = "/learner/course/:courseId" -> "CourseRoom"

RouteRole(path) ==
  CASE path \in {"/admin", "/admin/courses/new", "/admin/courses/:courseId"} -> "admin"
    [] path \in {"/learner", "/learner/course/:courseId"} -> "learner"
    [] OTHER -> Undefined

Element(kind, name) == [kind |-> kind, name |-> name]

\* RequireAuth: the element it returns for children under role
RequireAuthOpen(page, role, children) == Element("page", children)
RequireAuth(page, role, children) ==
  IF page.isLoading THEN Element("loader", "Loader2")
  ELSE IF page.user = NoBody THEN Element("navigate", "/")
  ELSE IF role # Undefined /\ Get(page.user.val, "role") # role
  THEN Element("navigate",
               IF Get(page.user.val, "role") = "admin" THEN "/admin" ELSE "/learner")
  ELSE Element("page", children)

\* what <Routes> renders for session c
Shown(c) ==
  IF RouteRole(pages[c].path) = Undefined
  THEN Element("page", RoutePage(pages[c].path))
  ELSE RequireAuth(pages[c], RouteRole(pages[c].path), RoutePage(pages[c].path))

ShowsPage(c, name) == Shown(c) = Element("page", name)

serverVars == <<disk, heap, MEMORY_DB, USING_MEMORY_DB, inflight, lastOp, acked,
                deleted, track>>

\* AuthProvider's effect: the stored user becomes the context user
authEffect(c) ==
  /\ pages[c].isLoading
  /\ pages' = [pages EXCEPT ![c].user = localStorage[c], ![c].isLoading = FALSE]
  /\ UNCHANGED <<serverVars, raced, localStorage, rooms, calls>>

\* <Navigate to=... replace />
redirect(c) ==
  /\ Shown(c).kind = "navigate"
  /\ pages' = [pages EXCEPT ![c].path = Shown(c).name, ![c].preview = FALSE]
  /\ UNCHANGED <<serverVars, raced, localStorage, rooms, calls>>

\* the address bar: the session goes to a route
navigateTo(c, path, preview) ==
  /\ Settled(c)
  /\ ~pages[c].isLoading
  /\ <<path, preview>> # <<pages[c].path, pages[c].preview>>
  /\ pages' = [pages EXCEPT ![c].path = path, ![c].preview = preview, ![c].error = ""]
  /\ UNCHANGED <<serverVars, raced, localStorage, rooms, calls>>

\* the page is loaded anew at its location
reload(c) ==
  /\ Settled(c)
  /\ ~pages[c].isLoading
  /\ pages' = [pages EXCEPT ![c] =
                 [PageInit EXCEPT !.path = pages[c].path, !.preview = pages[c].preview]]
  /\ UNCHANGED <<serverVars, raced, localStorage, rooms, calls>>

\* AuthProvider.logout from the button of a dashboard
logout(c) ==
  /\ Settled(c)
  /\ ShowsPage(c, "AdminDashboard") \/ ShowsPage(c, "LearnerDashboard")
  /\ localStorage' = [localStorage EXCEPT ![c] = NoBody]
  /\ pages' = [pages EXCEPT ![c].user = NoBody]
  /\ UNCHANGED <<serverVars, raced, rooms, calls>>

\* AdminDashboard: View as Learner on a course
viewAsLearner(c) ==
  /\ Settled(c)
  /\ ShowsPage(c, "AdminDashboard")
  /\ pages' = [pages EXCEPT ![c].path = "/learner/course/:courseId", ![c].preview = TRUE]
  /\ UNCHANGED <<serverVars, raced, localStorage, rooms, calls>>

\* the server after initializeData has seeded it
SeededDB ==
  [users |-> <<SeedAdmin, SeedLearner>>, courses |-> <<DemoCourse>>,
   enrollments |-> <<>>]

\* the session whose pages are followed, and the sessions that change
\* passwords meanwhile
Visitor == 1
Others == Clients \ {Visitor}

\* the server is empty (first run, or wiped) or seeded
InitAuth ==
  /\ disk \in {EmptyDB, SeededDB}
  /\ heap = [o \in ObjIds |-> IF o = 0 THEN disk ELSE EmptyDB]
  /\ MEMORY_DB = 0
  /\ USING_MEMORY_DB \in BOOLEAN
  /\ inflight = [s \in Slots |-> Idle]
  /\ lastOp = NoOp
  /\ acked = {}
  /\ deleted = {}
  /\ track = {}
  /\ ClientInit

Passwords == {"admin123", "learner123"}
NewPassword == "pw2"

HandleLogin ==
  \E c \in {Visitor}, email \in {"admin@lms.com", "learner@lms.com"},
     password \in Passwords, role \in {"admin", "learner"} :
    /\ Ready(c)
    /\ ShowsPage(c, "LoginPage")
    /\ ~pages[c].isLoading
    /\ handleLogin(c, email, password, role)
InitUsersFetch == \E c \in {Visitor} : initUsers(c)
InitCoursesFetch == \E c \in {Visitor} : initCourses(c)
LoginRefetch == \E c \in {Visitor} : loginRefetch(c)
ResetPassword ==
  \E c \in Others, userId \in {"admin-1", "learner-1", "ghost"} :
    adminResetUserPassword(c, userId, NewPassword)
ResetReturn == \E c \in Others : adminResetReturn(c, TRUE)
AuthEffect == \E c \in {Visitor} : authEffect(c)
Redirect == \E c \in {Visitor} : redirect(c)
NavigateTo == \E c \in {Visitor}, path \in Paths : navigateTo(c, path, FALSE)
Reload == \E c \in {Visitor} : reload(c)
Logout == \E c \in {Visitor} : logout(c)
ViewAsLearner == \E c \in {Visitor} : viewAsLearner(c)

SeedPost == \E c \in {Visitor} : seedPost(c)
SeedReturn == \E c \in {Visitor} : seedReturn(c, TRUE)

NextAuth ==
  \/ HandleLogin \/ InitUsersFetch \/ InitCoursesFetch \/ SeedPost \/ SeedReturn
  \/ LoginRefetch
  \/ ResetPassword \/ ResetReturn \/ AuthEffect \/ Redirect \/ NavigateTo
  \/ Reload \/ Logout \/ ViewAsLearner

SpecAuth == InitAuth /\ [][NextAuth]_vars

\* the api.login call of session c resolves or rejects in this step
LoginSettles(c) ==
  /\ calls'[c].op = "login"
  /\ calls'[c].pc \in {"done", "failed"}
  /\ Starts(c, "login") \/ calls[c].pc \notin {"done", "failed"}

\* the stored users with the email and the password of the login call
Matching(c) ==
  {u \in Range(Store'.users) :
     /\ Get(u, "email") = calls'[c].arg.email
     /\ Get(u, "password") = calls'[c].arg.password}

\* C12: api.login resolves with a user only when the store holds a user whose
\* email and password both equal the supplied values, and resolves with such
\* a user.
C12_LoginNeedsPassword ==
  [][\A c \in Clients :
       (LoginSettles(c) /\ calls'[c].pc = "done")
         => calls'[c].result \in Matching(c)]_vars

\* C19: api.login with a requiredRole other than the role of the user that
\* matches the credentials rejects with the Access Denied error and leaves
\* the stored current user and the AuthContext user as they were; LoginPage
\* shows the message and stays where it is.
C19_AccessDenied ==
  [][\A c \in Clients :
       (/\ LoginSettles(c)
        /\ Matching(c) # {}
        /\ \A u \in Matching(c) : Get(u, "role") # calls'[c].arg.requiredRole)
         => /\ calls'[c].pc = "failed"
            /\ calls'[c].error = AccessDenied
            /\ localStorage' = localStorage
            /\ pages'[c].user = pages[c].user
            /\ pages'[c].error = AccessDenied
            /\ pages'[c].path = pages[c].path]_vars

\* a logged-in learner, back at the LoginPage, was refused the admin portal
C19_Witness ==
  /\ calls[Visitor].op = "login" /\ calls[Visitor].pc = "failed"
  /\ calls[Visitor].arg.requiredRole = "admin"
  /\ calls[Visitor].arg.email = "learner@lms.com"
  /\ pages[Visitor].error = AccessDenied
  /\ pages[Visitor].path = "/"
  /\ pages[Visitor].user = Json(SeedLearner)
  /\ localStorage[Visitor] = Json(SeedLearner)

AdminPaths == {"/admin", "/admin/courses/new", "/admin/courses/:courseId"}
LearnerPaths == {"/learner", "/learner/course/:courseId"}

\* the role a path's pages are for
Needs(path) == IF path \in AdminPaths THEN "admin" ELSE "learner"

\* C18: under an admin route a page is rendered only while the AuthContext
\* user is non-null with role 'admin', under a learner route only while it is
\* non-null with role 'learner'; once the stored user is looked up, no user
\* gives the redirect to '/', the other role the redirect to that role's
\* dashboard; so after logout no protected page is rendered.
C18_ProtectedRoutes ==
  \A c \in Clients :
    LET page == pages[c]
    IN page.path \in AdminPaths \cup LearnerPaths
         => /\ Shown(c).kind = "page"
                 => /\ page.user # NoBody
                    /\ Get(page.user.val, "role") = Needs(page.path)
            /\ (~page.isLoading /\ page.user = NoBody)
                 => Shown(c) = Element("navigate", "/")
            /\ (~page.isLoading /\ page.user # NoBody
                  /\ Get(page.user.val, "role") # Needs(page.path))
                 => Shown(c) = Element("navigate",
                                       IF Needs(page.path) = "admin"
                                       THEN "/learner" ELSE "/admin")

\* a logged-in learner has gone to /admin and is about to be sent to /learner
C18_Witness ==
  /\ pages[Visitor].path = "/admin"
  /\ pages[Visitor].user = Json(SeedLearner)
  /\ Shown(Visitor) = Element("navigate", "/learner")
  /\ calls[Visitor].pc = "done"

\* C20: an admin who clicks View as Learner in the admin dashboard is shown
\* the CourseRoom in preview mode.
C20_PreviewShown ==
  [][\A c \in Clients :
       (/\ ShowsPage(c, "AdminDashboard")
        /\ pages'[c].path = "/learner/course/:courseId"
        /\ pages'[c].preview)
         => ShowsPage(c, "CourseRoom")']_vars

----------------------------------------------------------------------------
(* Retrying the assessment *)

\* the room of session c shows the result of a failed attempt
FailShown(c) ==
  /\ Rendered(c)
  /\ rooms[c].viewMode = "assessment"
  /\ rooms[c].score # NoScore
  /\ ~geq(rooms[c].score, rooms[c].course.val.assessment.passingScore)

\* the room of session c shows the assessment form
FormShown(c) ==
  /\ Rendered(c)
  /\ rooms[c].viewMode = "assessment"
  /\ rooms[c].score = NoScore

\* the answers that pick the correct option of every question
CorrectAnswers(c) ==
  [q \in {"q1"} |-> rooms[c].course.val.assessment.questions[1].correctOptionIndex]

----------------------------------------------------------------------------
(* The HTTP surface: unknown ids, unknown routes, malformed and null bodies *)

\* a request body that is not valid JSON
Malformed == [kind |-> "text", val |-> "{"]

NewPasswordBody == [password |-> "pw2"]

\* a body naming an enrollment id and no (userId, courseId)
Passed == [id |-> "e1", passed |-> TRUE]

SurfaceRequests ==
  {Req("GET", "users", NoId, NoBody),
   Req("POST", "users", NoId, Json(UserA)),
   Req("POST", "users", NoId, Malformed),
   Req("PATCH", "users", "u1", Json(NewPasswordBody)),
   Req("PATCH", "users", "u9", Json(NewPasswordBody)),
   Req("PATCH", "users", "u1", Malformed),
   Req("POST", "courses", NoId, Json(CourseB)),
   Req("POST", "courses", NoId, Json(Null)),
   Req("PUT", "courses", "c1", Json(CourseA2)),
   Req("DELETE", "courses", "c1", NoBody),
   Req("POST", "enrollments", NoId, Json(EnrA)),
   Req("POST", "enrollments", NoId, Json(Null)),
   Req("PUT", "enrollments", "e9", Json(Passed)),
   Req("PUT", "enrollments", "e9", Json(EnrB)),
   Req("PUT", "enrollments", "e1", Malformed),
   Req("GET", "health", NoId, NoBody),
   Req("POST", "health", NoId, NoBody),
   Req("OPTIONS", "users", NoId, NoBody),
   Req("DELETE", "users", "u1", NoBody),
   Req("PUT", "users", "u1", Json(NewPasswordBody)),
   Req("PATCH", "courses", "c1", Json(CourseA2)),
   Req("GET", "users", "u1", NoBody),
   Req("GET", "lessons", NoId, NoBody)}

SurfaceTraffic == HttpRequest(SurfaceRequests, {TRUE}, MaxWaitingCourses)

SurfaceBodyRead == BodyRead({TRUE})

NextSurface == SurfaceTraffic \/ SurfaceBodyRead

InitSurface == InitServer({})

SpecSurface == InitSurface /\ [][NextSurface]_vars

\* the ids the entities of a list have
IdsOf(arr) == {Get(x, "id") : x \in Range(arr) \ {Null}}

\* the request in slot s addresses an entity by id
ById(s) == inflight[s].req.id # NoId

ErrorPayloads ==
  {[error |-> "User not found"], [error |-> "Enrollment not found"],
   [error |-> "Not found"], [error |-> "Route not found"]}

Documented(req) ==
  \/ req.method \in {"GET", "POST"} /\ req.id = NoId
       /\ req.coll \in {"users", "courses", "enrollments"}
  \/ req.method = "PATCH" /\ req.coll = "users" /\ req.id # NoId
  \/ req.method \in {"PUT", "DELETE"} /\ req.coll = "courses" /\ req.id # NoId
  \/ req.method = "PUT" /\ req.coll = "enrollments" /\ req.id # NoId
  \/ req.method = "GET" /\ req.coll = "health" /\ req.id = NoId

\* a request outside the documented surface is handled in this step
Undocumented == lastOp'.req.method # "NONE" /\ ~Documented(lastOp'.req)

C15_MalformedAsEmpty ==
  [][\A s \in Slots :
       LET req == inflight[s].req
           db == heap[inflight[s].ptr]
           r == BodyRoute([req EXCEPT !.body = Json(EmptyObj)], db, EmptyObj)
       IN (Processed(s) /\ req.body.kind = "text")
            => /\ lastOp'.status = r.status
               /\ lastOp'.body = r.body
               /\ Store' = IF r.write THEN r.db ELSE Store
               /\ lastOp'.status # 500
               /\ (req.method = "POST" /\ req.coll \in {"users", "courses"})
                    => /\ lastOp'.status = 201
                       /\ Store'[req.coll] = Append(db[req.coll], EmptyObj)]_vars

\* a malformed POST /api/users was answered 201 after a user was stored
C15_Witness ==
  /\ lastOp.status = 201
  /\ lastOp.req.body = Malformed
  /\ lastOp.req.coll = "users"
  /\ lastOp.body = EmptyObj
  /\ Store.users = <<UserA, EmptyObj>>

\* C16: an exception thrown while a request is handled, in the tick it
\* arrives or in the callback that processes its body, gives a response with
\* status 500 and the payload {error: 'Internal Server Error'}.
C16_ExceptionGives500 ==
  [][/\ SyncThrows(lastOp'.req, Store) /\ inflight' = inflight
          => /\ lastOp'.status = 500
             /\ lastOp'.body = [error |-> "Internal Server Error"]
     /\ \A s \in Slots :
          (/\ Processed(s)
           /\ BodyThrows(inflight[s].req, Snapshot(s), readBody(inflight[s].req.body)))
            => /\ lastOp'.status = 500
               /\ lastOp'.body = [error |-> "Internal Server Error"]]_vars

----------------------------------------------------------------------------
(* PUT /api/enrollments/:id: what it changes *)

\* the request in slot s is a PUT /api/enrollments/:id whose callback runs in
\* this step without throwing
EnrollmentPut(s) ==
  /\ Processed(s)
  /\ inflight[s].req.method = "PUT"
  /\ inflight[s].req.coll = "enrollments"
  /\ ~BodyThrows(inflight[s].req, Snapshot(s), readBody(inflight[s].req.body))

\* the positions at which two lists of one length differ
Changed(old, new) == {i \in DOMAIN old : old[i] # new[i]}

\* C25 as stated: PUT /api/enrollments/:id changes at most one stored
\* enrollment, the one it changes has id equal to :id, the body is merged over
\* it, and every other enrollment and collection is unchanged.
C25_Original ==
  [][\A s \in Slots :
       EnrollmentPut(s)
         => /\ Len(Store'.enrollments) = Len(Store.enrollments)
            /\ Store'.users = Store.users /\ Store'.courses = Store.courses
            /\ Cardinality(Changed(Store.enrollments, Store'.enrollments)) <= 1
            /\ \A i \in Changed(Store.enrollments, Store'.enrollments) :
                 /\ Get(Store.enrollments[i], "id") = inflight[s].req.id
                 /\ Store'.enrollments[i]
                      = Spread(Store.enrollments[i],
                               readBody(inflight[s].req.body))]_vars

\* C25: relative to the db the request read on arrival, PUT
\* /api/enrollments/:id changes at most one enrollment: the first whose id
\* equals :id or whose (userId, courseId) are those of the body; on it the
\* body's fields are merged over the stored ones, so stored fields the body
\* omits are kept; every other enrollment and collection is as in that db,
\* and that db becomes the store.
C25_ChangesOneEnrollment ==
  [][\A s \in Slots :
       LET req == inflight[s].req
           db == heap[inflight[s].ptr]
           b == IF req.body.kind = "json" THEN req.body.val ELSE EmptyObj
           Hit(e) == e # Null /\ (Get(e, "id") = req.id
                                    \/ (b # Null /\ PairOf(e) = PairOf(b)))
       IN EnrollmentPut(s)
            => IF \E i \in DOMAIN db.enrollments : Hit(db.enrollments[i])
               THEN /\ Len(Store'.enrollments) = Len(db.enrollments)
                    /\ Store'.users = db.users /\ Store'.courses = db.courses
                    /\ Cardinality(Changed(db.enrollments, Store'.enrollments)) <= 1
                    /\ \A i \in DOMAIN db.enrollments :
                         IF Hit(db.enrollments[i])
                            /\ \A j \in 1..(i - 1) : ~Hit(db.enrollments[j])
                         THEN /\ Store'.enrollments[i] = Spread(db.enrollments[i], b)
                              /\ \A k \in DOMAIN db.enrollments[i] \ DOMAIN b :
                                   Store'.enrollments[i][k] = db.enrollments[i][k]
                              /\ lastOp'.status = 200
                         ELSE Store'.enrollments[i] = db.enrollments[i]
               ELSE Store' = Store /\ lastOp'.status = 404]_vars

\* the stored enrollment e1 was changed by a PUT to /api/enrollments/e9 that
\* carried its (userId, courseId)
C25_Witness ==
  /\ lastOp.status = 200
  /\ lastOp.req.method = "PUT" /\ lastOp.req.coll = "enrollments"
  /\ lastOp.req.id = "e9"
  /\ Store.enrollments = <<EnrB>>

----------------------------------------------------------------------------
(* Progress of an enrollment *)

\* C26: a module id recorded as completed in the stored enrollment is never
\* removed from it, whatever markComplete calls and assessment submissions
\* the sessions of the learner issue.
C26_CompletedOnlyGrows ==
  [][\A m \in Range(StoredEnrollment.completedModuleIds) :
       m \in Range(StoredEnrollment'.completedModuleIds)]_vars

----------------------------------------------------------------------------
(* Memory mode: writes of database.json that fail *)

ModeRequests == UserRequests \cup {Req("GET", "health", NoId, NoBody)}

ModeTraffic == HttpRequest(ModeRequests, BOOLEAN, MaxInFlight)

ModeBodyRead == BodyRead(BOOLEAN)

NextMode == ModeTraffic \/ ModeBodyRead

InitMode == InitServer({})

SpecMode == InitMode /\ [][NextMode]_vars

\* a request of the given method and collection is answered in the tick it
\* arrives, in this step
AnsweredAtOnce(method, coll) ==
  /\ lastOp'.req.method = method /\ lastOp'.req.coll = coll
  /\ lastOp'.status = 200
  /\ inflight' = inflight

\* C24: once USING_MEMORY_DB is true it stays true; from then on GET
\* /api/health reports mode 'memory', the file is not written again, and a
\* read returns what the latest writeDB was given: the step in which the
\* write to disk fails and every later write leave their data as the store,
\* and GET /api/users returns the users of that store.
C24_MemoryModeSticks ==
  [][/\ USING_MEMORY_DB => (USING_MEMORY_DB' /\ disk' = disk)
     /\ (USING_MEMORY_DB' /\ AnsweredAtOnce("GET", "health"))
          => lastOp'.body.mode = "memory"
     /\ (USING_MEMORY_DB' /\ AnsweredAtOnce("GET", "users"))
          => lastOp'.body = heap'[MEMORY_DB'].users
     /\ \A s \in Slots :
          (Processed(s) /\ USING_MEMORY_DB')
            => /\ Store' = heap'[MEMORY_DB']
               /\ Store'.users = Append(heap[inflight[s].ptr].users,
                                        inflight[s].req.body.val)]_vars

\* a first write reached the file, a later one failed, and the health check
\* has since reported memory mode: the store holds both users, the file one
C24_Witness ==
  /\ USING_MEMORY_DB
  /\ disk.users = <<UserA>>
  /\ Store.users = <<UserA, UserB>>
  /\ lastOp.req.coll = "health"
  /\ lastOp.body.mode = "memory"

----------------------------------------------------------------------------
(* Scoring: assessments of every size CourseEditor can save *)

MaxQuestions == 2

PassingScores == {0, 50, 70, 100}

\* the questions q1..qn, each with correct option 0
Questions(n) == [i \in 1..n |-> [id |-> IdTable[1][i], correctOptionIndex |-> 0]]

\* a published course with n questions and the given passing score
CourseN(n, passingScore) ==
  [CourseL EXCEPT !.assessment =
     [questions |-> Questions(n), passingScore |-> passingScore]]

\* the learner's enrollment with every module completed
EnrDone == [EnrL EXCEPT !.completedModuleIds = <<"m1", "m2">>]

InitScore ==
  \E n \in 0..MaxQuestions, passingScore \in PassingScores :
    LET db == [users |-> <<UserL>>, courses |-> <<CourseN(n, passingScore)>>,
               enrollments |-> <<EnrDone>>]
    IN /\ disk = db
       /\ heap = [o \in ObjIds |-> IF o = 0 THEN db ELSE EmptyDB]
       /\ MEMORY_DB = 0
       /\ USING_MEMORY_DB = FALSE
       /\ inflight = [s \in Slots |-> Idle]
       /\ lastOp = NoOp
       /\ acked = {}
       /\ deleted = {}
       /\ track = {}
       /\ raced = FALSE
       /\ localStorage = [c \in Clients |-> Json(UserL)]
       /\ rooms = [c \in Clients |-> RoomClosed]
       /\ pages = [c \in Clients |-> PageInit]
       /\ calls = [c \in Clients |-> CallIdle(0)]

\* what the radio buttons of session c can hold: an option for every question
AnswerSheets(c) ==
  [{q.id : q \in Range(rooms[c].course.val.assessment.questions)} -> Options]

SubmitSheet ==
  \E c \in Clients :
    /\ rooms[c].course # NoBody
    /\ \E answers \in AnswerSheets(c) : handleAssessmentSubmit(c, answers, TRUE)

NextScore ==
  \/ LoadCourses \/ LoadEnrollments \/ OpenAssessment \/ SubmitSheet
  \/ UpdatePut \/ UpdateReturn \/ Refresh \/ TryAgain

SpecScore == InitScore /\ [][NextScore]_vars

\* C23: for an assessment with n questions of which k are answered
\* correctly, handleAssessmentSubmit sends assessmentScore = round(100 k / n)
\* and passed = (assessmentScore >= passingScore); a learner who answers
\* every question correctly is sent, and stored, as passed, whatever the
\* passing score and the number of questions, none included.
C23_ScoreAndPass ==
  [][\A c \in Clients :
       /\ rooms[c].course # NoBody
            => \A answers \in AnswerSheets(c) :
                 LET assessment == rooms[c].course.val.assessment
                     n == Len(assessment.questions)
                     k == Cardinality({i \in 1..n :
                            answers[assessment.questions[i].id]
                              = assessment.questions[i].correctOptionIndex})
                     sent == calls'[c].sent
                 IN (handleAssessmentSubmit(c, answers, TRUE) /\ calls'[c].pc = "post")
                      => /\ n > 0
                              => /\ 2 * n * sent.assessmentScore <= 200 * k + n
                                 /\ 200 * k + n < 2 * n * (sent.assessmentScore + 1)
                                 /\ sent.passed
                                      = (sent.assessmentScore >= assessment.passingScore)
                         /\ k = n => sent.passed
       /\ (/\ Answered(c, "updateProgress")
           /\ rooms[c].pending = "submit"
           /\ lastOp'.status = 200)
            => StoredEnrollment'.passed = calls[c].sent.passed]_vars

----------------------------------------------------------------------------
(* Preview mode: one session has opened the room with ?preview=true *)

\* the page of a logged-in learner at the course room
RoomPage(preview) ==
  [user |-> Json(UserL), isLoading |-> FALSE, path |-> "/learner/course/:courseId",
   preview |-> preview, error |-> ""]

InitPreview ==
  /\ disk = StoreL
  /\ heap = [o \in ObjIds |-> IF o = 0 THEN StoreL ELSE EmptyDB]
  /\ MEMORY_DB = 0
  /\ USING_MEMORY_DB \in BOOLEAN
  /\ inflight = [s \in Slots |-> Idle]
  /\ lastOp = NoOp
  /\ acked = {}
  /\ deleted = {}
  /\ track = {}
  /\ raced = FALSE
  /\ localStorage = [c \in Clients |-> Json(UserL)]
  /\ rooms = [c \in Clients |-> RoomClosed]
  /\ pages = [c \in Clients |-> RoomPage(c = Visitor)]
  /\ calls = [c \in Clients |-> CallIdle(0)]

SpecPreview == InitPreview /\ [][NextLearner]_vars

\* C21: a session whose room is in preview mode makes no api call that
\* writes and has no request waiting at the server; every step that changes
\* its room leaves the store, the file and the waiting requests as they were;
\* and no enrollment is stored for the preview user.
C21_PreviewReadOnly ==
  /\ [](\A c \in Clients :
          pages[c].preview
            => /\ calls[c] = CallIdle(0)
               /\ \A s \in Slots : inflight[s].busy => inflight[s].owner # c
               /\ \A e \in Range(Store.enrollments) : Get(e, "userId") # "preview")
  /\ [][\A c \in Clients :
          (pages[c].preview /\ rooms'[c] # rooms[c])
            => /\ Store' = Store
               /\ UNCHANGED <<disk, inflight, calls>>]_vars

\* the preview session is at the assessment with its mock enrollment, while
\* another session of the learner has recorded a module in the store
C21_Witness ==
  /\ pages[Visitor].preview
  /\ rooms[Visitor].viewMode = "assessment"
  /\ rooms[Visitor].enrollment = Json(PreviewEnrollment)
  /\ StoredEnrollment.completedModuleIds # <<>>

----------------------------------------------------------------------------
(* LearnerDashboard: the init effect enrolls the learner in every published
   course.  In this specification rooms[c] holds the state of the dashboard
   of session c *)

CourseDraft == [id |-> "c3", status |-> "draft", modules |-> <<>>]

\* the dashboard before its effect has run; base is the number of api calls
\* the session had made when init began, runs the number of inits completed
DashboardClosed ==
  [stage |-> "closed", courses |-> <<>>, enrollments |-> <<>>, base |-> 0,
   runs |-> 0]

\* init up to setCourses(published)
initCoursesPublished(c) ==
  /\ rooms[c].stage = "closed"
  /\ localStorage[c] # NoBody
  /\ Settled(c)
  /\ Arrive(Req("GET", "courses", NoId, NoBody), c, TRUE)
  /\ LET allCourses == lastOp'.body
         published == Filter(allCourses, {x \in Range(allCourses) :
                                            Get(x, "status") = "published"})
     IN rooms' = [rooms EXCEPT ![c] =
          [@ EXCEPT !.stage = "enrolling", !.courses = published,
                    !.base = calls[c].n]]
  /\ UNCHANGED <<raced, pages, localStorage, calls>>

\* for (const c of published) await api.enrollUser(user.id, c.id): the call
\* for the next course, once the one before has returned
initEnrollNext(c) ==
  /\ rooms[c].stage = "enrolling"
  /\ calls[c].pc # "failed"
  /\ LET i == calls[c].n - rooms[c].base + 1
     IN /\ i <= Len(rooms[c].courses)
        /\ enrollUserGet(c, user(c).id, rooms[c].courses[i].id, TRUE)

\* init from api.getEnrollments on: the loop is over
initEnrollments(c) ==
  /\ rooms[c].stage = "enrolling"
  /\ Settled(c)
  /\ calls[c].pc # "failed"
  /\ calls[c].n - rooms[c].base = Len(rooms[c].courses)
  /\ Arrive(Req("GET", "enrollments", NoId, NoBody), c, TRUE)
  /\ rooms' = [rooms EXCEPT ![c] =
       [@ EXCEPT !.stage = "ready", !.runs = @ + 1,
                 !.enrollments = getEnrollments(lastOp'.body, user(c).id)]]
  /\ UNCHANGED <<raced, pages, localStorage, calls>>

\* the dashboard is mounted again and its effect runs again
remount(c) ==
  /\ rooms[c].stage = "ready"
  /\ rooms' = [rooms EXCEPT ![c].stage = "closed"]
  /\ UNCHANGED <<disk, heap, MEMORY_DB, USING_MEMORY_DB, inflight, lastOp, acked,
                 deleted, track, raced, pages, localStorage, calls>>

StoreD == [users |-> <<UserL>>, courses |-> <<CourseA, CourseB, CourseDraft>>,
           enrollments |-> <<>>]

InitDashboard ==
  /\ disk = StoreD
  /\ heap = [o \in ObjIds |-> IF o = 0 THEN StoreD ELSE EmptyDB]
  /\ MEMORY_DB = 0
  /\ USING_MEMORY_DB \in BOOLEAN
  /\ inflight = [s \in Slots |-> Idle]
  /\ lastOp = NoOp
  /\ acked = {}
  /\ deleted = {}
  /\ track = {}
  /\ raced = FALSE
  /\ localStorage = [c \in Clients |-> Json(UserL)]
  /\ rooms = [c \in Clients |-> DashboardClosed]
  /\ pages = [c \in Clients |-> PageInit]
  /\ calls = [c \in Clients |-> CallIdle(0)]

InitCoursesPublished == \E c \in Clients : initCoursesPublished(c)
InitEnrollNext == \E c \in Clients : initEnrollNext(c)
InitEnrollments == \E c \in Clients : initEnrollments(c)
Remount == \E c \in Clients : remount(c)

NextDashboard ==
  \/ InitCoursesPublished \/ InitEnrollNext \/ EnrollPost \/ EnrollReturn
  \/ InitEnrollments \/ Remount

SpecDashboard == InitDashboard /\ [][NextDashboard]_vars

\* the stored enrollments of (userId, course)
EnrollmentsOf(db, userId, course) ==
  {i \in DOMAIN db.enrollments : PairOf(db.enrollments[i]) = <<userId, course>>}

\* C22: when the init of a session completes, the store holds exactly one
\* enrollment of the learner for every course that was published when the
\* session fetched the courses and none for a draft course; and a session
\* that runs init again posts no enrollment.
C22_EnrolledOnce ==
  [][\A c \in Clients :
       /\ (rooms[c].stage = "enrolling" /\ rooms'[c].stage = "ready")
            => /\ \A course \in Range(rooms[c].courses) :
                    Cardinality(EnrollmentsOf(Store', user(c).id, course.id)) = 1
               /\ EnrollmentsOf(Store', user(c).id, CourseDraft.id) = {}
       /\ (rooms[c].runs > 0 /\ calls[c].pc # "post")
            => calls'[c].pc # "post"]_vars

----------------------------------------------------------------------------
(* Seeding: initializeData runs when a client loads the module and again from
   the heal path of api.login; the clients start against an empty server *)

\* storage.ts runs initializeData() when the module is loaded
startClient(c) ==
  /\ Ready(c)
  /\ calls' = [calls EXCEPT ![c] =
       [CallIdle(@.n + 1) EXCEPT !.pc = "init.users", !.op = "initializeData"]]
  /\ UNCHANGED <<disk, heap, MEMORY_DB, USING_MEMORY_DB, inflight, lastOp, acked,
                 deleted, track, raced, pages, localStorage, rooms>>

\* the initializeData of the module load returns; nothing awaits it
initializeDataEnd(c) ==
  /\ calls[c].pc = "refetch"
  /\ calls[c].op = "initializeData"
  /\ calls' = [calls EXCEPT ![c].pc = "done"]
  /\ UNCHANGED <<disk, heap, MEMORY_DB, USING_MEMORY_DB, inflight, lastOp, acked,
                 deleted, track, raced, pages, localStorage, rooms>>

InitSeed ==
  /\ disk = EmptyDB
  /\ heap = [o \in ObjIds |-> EmptyDB]
  /\ MEMORY_DB = 0
  /\ USING_MEMORY_DB \in BOOLEAN
  /\ inflight = [s \in Slots |-> Idle]
  /\ lastOp = NoOp
  /\ acked = {}
  /\ deleted = {}
  /\ track = {}
  /\ ClientInit

StartClient == \E c \in Clients : startClient(c)
HealLogin == \E c \in Clients : handleLogin(c, "admin@lms.com", "admin123", "admin")
SeedUsersFetch == \E c \in Clients : initUsers(c)
SeedCoursesFetch == \E c \in Clients : initCourses(c)
SeedSend == \E c \in Clients : seedPost(c)
SeedAnswer == \E c \in Clients : seedReturn(c, TRUE)
SeedEnd == \E c \in Clients : initializeDataEnd(c)
HealRefetch == \E c \in Clients : loginRefetch(c)

NextSeed ==
  \/ StartClient \/ HealLogin \/ SeedUsersFetch \/ SeedCoursesFetch \/ SeedSend
  \/ SeedAnswer \/ SeedEnd \/ HealRefetch

SpecSeed == InitSeed /\ [][NextSeed]_vars

\* the positions of the elements of collection value coll with the id
WithId(coll, id) == {i \in DOMAIN coll : Get(coll[i], "id") = id}

\* C27: whatever runs of initializeData have happened, overlapping or not,
\* the store holds at most one user with id admin-1, at most one user with
\* id learner-1 and at most one course with id demo-1.
C27_SeededOnce ==
  /\ Cardinality(WithId(Store.users, "admin-1")) <= 1
  /\ Cardinality(WithId(Store.users, "learner-1")) <= 1
  /\ Cardinality(WithId(Store.courses, "demo-1")) <= 1

====
